---- MODULE Spec2Model ----
(***************************************************************************)
(* A model of the CSV cleaning and validation pipeline:                    *)
(*   DataLoadingAndCleaning.py  process_all_csv_files                      *)
(*   LoadDataStructure.py       load_cleaned_data, validate_numeric_columns,*)
(*                              standardize_categorical_columns            *)
(*                                                                         *)
(* File names and categorical cells are sequences of one-character strings *)
(* so that endswith, strip and upper are computed, not assumed.  A CSV      *)
(* file is a header and rows of text fields; a row shorter than the header *)
(* has its trailing fields absent.  A DataFrame cell is a record           *)
(* [t, v, s]: t is "nan", "int", "float" or "str".                         *)
(***************************************************************************)
EXTENDS Integers, Sequences, FiniteSets, TLC

VARIABLES
    pc,            \* position in the function being run
    folder,        \* what folder_path names: "absent", "dir" or "file"
    out,           \* what output_folder names: "absent", "dir" or "file"
    created,       \* TRUE once os.makedirs(output_folder) has run
    listing,       \* os.listdir(folder_path), in file-system order
    content,       \* file name -> the CSV file's header and rows
    fate,          \* file name -> how the environment treats its I/O
    rows_to_read,  \* the row cap (nrows)
    placeholder,   \* the fill value
    csv_files,     \* the discovered files
    i,             \* index of the loop over csv_files (1-based)
    data,          \* the DataFrame read from the current file
    cleaned_data,  \* data after fillna
    err,           \* the exception in flight in the current iteration
    outFiles,      \* output file name -> what to_csv left on disk
    log,           \* processing_errors.log, a sequence of lines
    touched,       \* the input files on which read_csv was called
    raised,        \* the exception that left the function, or "none"
    dataframes,    \* load_cleaned_data: the frames loaded so far
    combined_df,   \* load_cleaned_data: the frame built and returned
    df,            \* the frame handed to a validation stage
    first,         \* the frame after the first application of the stage
    calls          \* how many times the stage has been applied

vars == <<pc, folder, out, created, listing, content, fate, rows_to_read,
          placeholder, csv_files, i, data, cleaned_data, err, outFiles, log,
          touched, raised, dataframes, combined_df, df, first, calls>>

\* ------------------------------------------------------------ bounds
MaxFiles == 2
MaxRows == 2
MaxCap == 2
MaxCells == 3
MaxLen == 2

\* ------------------------------------------------------------ helpers
Min(a, b) == IF a < b THEN a ELSE b

Range(s) == {s[n] : n \in 1..Len(s)}

SeqsUpTo(S, n) == UNION {[1..m -> S] : m \in 0..n}

Injective(s) == \A a, b \in 1..Len(s) : s[a] = s[b] => a = b

\* ------------------------------------------------------------ file names
NameLower == <<"a", ".", "c", "s", "v">>
NameUpper == <<"b", ".", "C", "S", "V">>
NameText == <<"d", ".", "t", "x", "t">>
NameBare == <<"c", "s", "v">>
NameSecond == <<"e", ".", "c", "s", "v">>

Names == {NameLower, NameUpper, NameText, NameBare, NameSecond}

DotCsv == <<".", "c", "s", "v">>

\* str.endswith
EndsWith(name, suffix) ==
    /\ Len(name) >= Len(suffix)
    /\ SubSeq(name, Len(name) - Len(suffix) + 1, Len(name)) = suffix

\* [f for f in os.listdir(folder_path) if f.endswith('.csv')]
CleanCsvFiles(names) == SelectSeq(names, LAMBDA f : EndsWith(f, DotCsv))

\* os.path.join(output_folder, f"cleaned_{csv_file}")
OutputName(csv_file) == <<"cleaned_">> \o csv_file

\* ------------------------------------------------------------ cells
NaN == [t |-> "nan", v |-> 0, s |-> ""]
None == [t |-> "none", v |-> 0, s |-> ""]
IntCell(n) == [t |-> "int", v |-> n, s |-> ""]
FloatCell(n) == [t |-> "float", v |-> n, s |-> ""]
StrCell(x) == [t |-> "str", v |-> 0, s |-> x]

\* The fields pandas' parser reads as missing by default (those in use here).
NaValues == {"", "NA", "N/A", "NULL", "NaN", "nan", "null"}

\* Text of the numbers in use, and their values and renderings.
IsIntText(x) == x \in {"7", "12"}
IsFloatText(x) == x \in {"7.0", "12.0"}
IsNumText(x) == IsIntText(x) \/ IsFloatText(x)
NumValue(x) == IF x \in {"7", "7.0"} THEN 7 ELSE 12
IntText(n) == IF n = 7 THEN "7" ELSE "12"
FloatText(n) == IF n = 7 THEN "7.0" ELSE "12.0"

\* A field of a parsed row is missing when the row is too short to hold it
\* or when its text is one of the default NA values.
IsNaField(row, c) == c > Len(row) \/ row[c] \in NaValues

\* The dtype the parser infers for column c of the rows it parsed.
ColumnKind(rows, c) ==
    IF \E r \in 1..Len(rows) : ~IsNaField(rows[r], c) /\ ~IsNumText(rows[r][c])
    THEN "object"
    ELSE IF \E r \in 1..Len(rows) :
                IsNaField(rows[r], c) \/ IsFloatText(rows[r][c])
         THEN "float64"
         ELSE "int64"

ParseCell(row, c, kind) ==
    IF IsNaField(row, c) THEN NaN
    ELSE IF kind = "object" THEN StrCell(row[c])
    ELSE IF kind = "float64" THEN FloatCell(NumValue(row[c]))
    ELSE IntCell(NumValue(row[c]))

\* The parser proper: the rows handed to it become a DataFrame.
ParseRows(header, rows) ==
    [columns |-> header,
     rows |-> [r \in 1..Len(rows) |->
                 [c \in 1..Len(header) |->
                    ParseCell(rows[r], c, ColumnKind(rows, c))]]]

\* Mutant: the row cap is ignored.
ReadCsvUncapped(file, nrows) == ParseRows(file.header, file.rows)

\* pd.read_csv(file_path, nrows=rows_to_read, ...): at most nrows data rows.
ReadCsvCapped(file, nrows) ==
    ParseRows(file.header, SubSeq(file.rows, 1, Min(nrows, Len(file.rows))))

\* Mutant: the result of the fill is discarded.
FillNaDiscarded(frame, value) == frame

\* Mutant: a column holding a missing cell is overwritten whole.
FillNaColumn(frame, value) ==
    [columns |-> frame.columns,
     rows |-> [r \in 1..Len(frame.rows) |->
                 [c \in 1..Len(frame.rows[r]) |->
                    IF \E q \in 1..Len(frame.rows) : frame.rows[q][c].t = "nan"
                    THEN value
                    ELSE frame.rows[r][c]]]]

\* data.fillna(placeholder)
FillNa(frame, value) ==
    [columns |-> frame.columns,
     rows |-> [r \in 1..Len(frame.rows) |->
                 [c \in 1..Len(frame.rows[r]) |->
                    IF frame.rows[r][c].t = "nan" THEN value
                    ELSE frame.rows[r][c]]]]

\* How to_csv renders a cell (na_rep is the empty string).
FormatCell(cell) ==
    IF cell.t = "nan" THEN ""
    ELSE IF cell.t = "str" THEN cell.s
    ELSE IF cell.t = "float" THEN FloatText(cell.v)
    ELSE IntText(cell.v)

\* cleaned_data.to_csv(output_file_path, index=False)
ToCsv(frame) ==
    [state |-> "complete",
     header |-> frame.columns,
     rows |-> [r \in 1..Len(frame.rows) |->
                 [c \in 1..Len(frame.rows[r]) |-> FormatCell(frame.rows[r][c])]]]

NoFile == [state |-> "none", header |-> <<>>, rows |-> <<>>]

\* What a write that fails after the file was opened leaves behind.
PartialFile(frame) == [state |-> "partial", header |-> frame.columns, rows |-> <<>>]

NoFrame == [columns |-> <<>>, rows |-> <<>>]

\* ------------------------------------------------------------ inputs
FolderKinds == {"absent", "dir", "file"}

\* How the environment treats one file: readable and writable, unreadable
\* or malformed, output not openable, output failing after it was opened.
Fates == {"ok", "read_error", "write_error", "write_partial"}

Placeholders == {StrCell("N/A"), StrCell("X")}

Header == <<"k", "v">>

\* The rows of a two-column file: the second field may be absent.
FileRows ==
    {<<k>> : k \in {"x", "7"}}
        \cup {<<k, v>> : k \in {"x", "7"}, v \in {"", "NA", "7"}}

FileContents == {[header |-> Header, rows |-> rs] : rs \in SeqsUpTo(FileRows, MaxRows)}

SampleFile == [header |-> Header, rows |-> << <<"x", "7">>, <<"7">> >>]

\* The listings of a folder: distinct names in any order.
Listings == {l \in SeqsUpTo(Names, MaxFiles) : Injective(l)}

NoOutputs == [n \in {OutputName(f) : f \in Names} |-> NoFile]

\* The locals of the functions not running.
IdleLoad == dataframes = <<>> /\ combined_df = NoFrame

IdleStage == df = NoFrame /\ first = NoFrame /\ calls = 0

IdleLocals ==
    /\ csv_files = <<>>
    /\ i = 1
    /\ data = NoFrame
    /\ cleaned_data = NoFrame
    /\ err = "none"
    /\ outFiles = NoOutputs
    /\ log = <<>>
    /\ touched = {}
    /\ raised = "none"
    /\ created = FALSE

\* ------------------------------------------------------------ process_all_csv_files
\* A batch of files of any names and fates, each holding the sample file.
InitCleanBatch ==
    /\ folder = "dir"
    /\ out = "absent"
    /\ listing \in Listings
    /\ fate \in [Range(listing) -> Fates]
    /\ content = [f \in Range(listing) |-> SampleFile]
    /\ rows_to_read = 1
    /\ placeholder = StrCell("N/A")

\* Any input and output path, a negative row cap, a placeholder of None.
InitCleanPaths ==
    /\ folder \in FolderKinds
    /\ out \in FolderKinds
    /\ listing = IF folder = "dir" THEN <<NameLower, NameSecond>> ELSE <<>>
    /\ fate = [f \in Range(listing) |-> "ok"]
    /\ content = [f \in Range(listing) |-> SampleFile]
    /\ rows_to_read \in {-1, 1}
    /\ placeholder \in {StrCell("N/A"), None}

\* One well-named file of any content, under any row cap and placeholder.
InitCleanCells ==
    /\ folder = "dir"
    /\ out = "absent"
    /\ listing = <<NameLower>>
    /\ fate = [f \in {NameLower} |-> "ok"]
    /\ content \in [{NameLower} -> FileContents]
    /\ rows_to_read \in 0..MaxCap
    /\ placeholder \in Placeholders

InitClean ==
    /\ pc = "check"
    /\ InitCleanBatch \/ InitCleanPaths \/ InitCleanCells
    /\ IdleLocals
    /\ IdleLoad
    /\ IdleStage

env == <<folder, listing, content, fate, rows_to_read, placeholder>>
other == <<dataframes, combined_df, df, first, calls>>

\* Mutant: the existence check is missing.
CheckFolderSkipped ==
    /\ pc = "check"
    /\ pc' = "mkdir"
    /\ UNCHANGED <<env, other, out, created, csv_files, i, data, cleaned_data,
                   err, outFiles, log, touched, raised>>

\* if not os.path.exists(folder_path): raise FileNotFoundError
CheckFolder ==
    /\ pc = "check"
    /\ IF folder = "absent"
       THEN pc' = "raised" /\ raised' = "FileNotFoundError"
       ELSE pc' = "mkdir" /\ raised' = raised
    /\ UNCHANGED <<env, other, out, created, csv_files, i, data, cleaned_data,
                   err, outFiles, log, touched>>

\* if not os.path.exists(output_folder): os.makedirs(output_folder)
MakeOutputFolder ==
    /\ pc = "mkdir"
    /\ IF out = "absent"
       THEN out' = "dir" /\ created' = TRUE
       ELSE out' = out /\ created' = created
    /\ pc' = "list"
    /\ UNCHANGED <<env, other, csv_files, i, data, cleaned_data, err, outFiles,
                   log, touched, raised>>

\* csv_files = [f for f in os.listdir(folder_path) if f.endswith('.csv')]
\* os.listdir raises NotADirectoryError on a path that is not a directory and
\* FileNotFoundError on a path that does not exist.
ListCsvFiles ==
    /\ pc = "list"
    /\ IF folder # "dir"
       THEN pc' = "raised" /\ csv_files' = csv_files
            /\ raised' = IF folder = "file" THEN "NotADirectoryError"
                          ELSE "FileNotFoundError"
       ELSE pc' = "loop" /\ raised' = raised
            /\ csv_files' = CleanCsvFiles(listing)
    /\ i' = 1
    /\ UNCHANGED <<env, other, out, created, data, cleaned_data, err, outFiles,
                   log, touched>>

\* for csv_file in csv_files: the next file, or the end of the function.
NextFile ==
    /\ pc = "loop"
    /\ pc' = IF i <= Len(csv_files) THEN "read" ELSE "done"
    /\ UNCHANGED <<env, other, out, created, csv_files, i, data, cleaned_data,
                   err, outFiles, log, touched, raised>>

\* data = pd.read_csv(file_path, nrows=rows_to_read, ...)
\* A negative nrows is a ValueError; an unreadable or malformed file raises.
ReadFile ==
    /\ pc = "read"
    /\ touched' = touched \cup {csv_files[i]}
    /\ IF rows_to_read < 0
       THEN pc' = "except" /\ err' = "ValueError" /\ data' = data
       ELSE IF fate[csv_files[i]] = "read_error"
       THEN pc' = "except" /\ err' = "ParserError" /\ data' = data
       ELSE pc' = "fill" /\ err' = err
            /\ data' = ReadCsvCapped(content[csv_files[i]], rows_to_read)
    /\ UNCHANGED <<env, other, out, created, csv_files, i, cleaned_data,
                   outFiles, log, raised>>

\* cleaned_data = data.fillna(placeholder); fillna(None) is a ValueError.
FillMissing ==
    /\ pc = "fill"
    /\ IF placeholder = None
       THEN pc' = "except" /\ err' = "ValueError" /\ cleaned_data' = cleaned_data
       ELSE pc' = "write" /\ err' = err
            /\ cleaned_data' = FillNa(data, placeholder)
    /\ UNCHANGED <<env, other, out, created, csv_files, i, data, outFiles, log,
                   touched, raised>>

\* cleaned_data.to_csv(output_file_path, index=False)
WriteFile ==
    /\ pc = "write"
    /\ LET name == OutputName(csv_files[i])
           f == fate[csv_files[i]]
       IN IF out # "dir" \/ f = "write_error"
          THEN pc' = "except" /\ err' = "OSError" /\ outFiles' = outFiles
               /\ i' = i
          ELSE IF f = "write_partial"
          THEN pc' = "except" /\ err' = "OSError" /\ i' = i
               /\ outFiles' = [outFiles EXCEPT ![name] = PartialFile(cleaned_data)]
          ELSE pc' = "loop" /\ err' = err /\ i' = i + 1
               /\ outFiles' = [outFiles EXCEPT ![name] = ToCsv(cleaned_data)]
    /\ UNCHANGED <<env, other, out, created, csv_files, data, cleaned_data, log,
                   touched, raised>>

\* Mutant: the handler logs the error and raises it again.
LogErrorAndReraise ==
    /\ pc = "except"
    /\ log' = Append(log, [file |-> csv_files[i], msg |-> err])
    /\ raised' = err
    /\ pc' = "raised"
    /\ UNCHANGED <<env, other, out, created, csv_files, i, data, cleaned_data,
                   err, outFiles, touched>>

\* except Exception as e: append "Error processing file {csv_file}: {e}"
LogError ==
    /\ pc = "except"
    /\ log' = Append(log, [file |-> csv_files[i], msg |-> err])
    /\ err' = "none"
    /\ i' = i + 1
    /\ pc' = "loop"
    /\ UNCHANGED <<env, other, out, created, csv_files, data, cleaned_data,
                   outFiles, touched, raised>>

NextClean ==
    \/ CheckFolder
    \/ MakeOutputFolder
    \/ ListCsvFiles
    \/ NextFile
    \/ ReadFile
    \/ FillMissing
    \/ WriteFile
    \/ LogError

SpecClean == InitClean /\ [][NextClean]_vars

\* ------------------------------------------------------------ claims on process_all_csv_files
Complete(f) == outFiles[OutputName(f)].state = "complete"

LogLines(f) == Cardinality({n \in 1..Len(log) : log[n].file = f})

SameValue(written, source) ==
    IF IsNumText(written) /\ IsNumText(source)
    THEN NumValue(written) = NumValue(source)
    ELSE written = source

\* C4: a cleaned output file has no missing cell: every field is non-empty
\* and is the placeholder or the value of the source field at its place.
C4_NoMissingCells ==
    \A f \in Range(csv_files) :
        Complete(f) =>
            LET o == outFiles[OutputName(f)]
                src == content[f].rows
            IN \A r \in 1..Len(o.rows) :
                   /\ Len(o.rows[r]) = Len(o.header)
                   /\ \A c \in 1..Len(o.rows[r]) :
                          /\ o.rows[r][c] # ""
                          /\ \/ o.rows[r][c] = placeholder.s
                             \/ /\ c <= Len(src[r])
                                /\ SameValue(o.rows[r][c], src[r][c])

\* A cleaned file holds a placeholder where the source field was absent and
\* a data value elsewhere.
C4_Witness ==
    \E f \in Range(csv_files) :
        /\ Complete(f)
        /\ LET o == outFiles[OutputName(f)]
           IN \E r \in 1..Len(o.rows) :
                  /\ Len(content[f].rows[r]) = 1
                  /\ o.rows[r][2] = placeholder.s
                  /\ o.rows[r][1] # placeholder.s

\* C5: the cleaned output has min(source rows, rows_to_read) data rows.
C5_RowCount ==
    \A f \in Range(csv_files) :
        Complete(f) =>
            Len(outFiles[OutputName(f)].rows)
                = Min(Len(content[f].rows), rows_to_read)

\* The cap cut a file short, and a missing cell was filled in what was kept.
C5_Witness ==
    \E f \in Range(csv_files) :
        /\ Complete(f)
        /\ rows_to_read >= 1
        /\ Len(content[f].rows) > rows_to_read
        /\ Len(outFiles[OutputName(f)].rows) = rows_to_read
        /\ \E r \in 1..rows_to_read : IsNaField(content[f].rows[r], 2)

ToLower(ch) ==
    CASE ch = "C" -> "c" [] ch = "S" -> "s" [] ch = "V" -> "v" [] OTHER -> ch

LowerName(name) == [n \in 1..Len(name) |-> ToLower(name[n])]

\* C7: discovery selects exactly the files whose name ends in '.csv' in any
\* letter case, in listing order.
C7_CaseInsensitiveDiscovery ==
    pc \in {"loop", "read", "fill", "write", "except", "done"} =>
        csv_files = SelectSeq(listing, LAMBDA f : EndsWith(LowerName(f), DotCsv))

\* The fields the specification counts as missing: absent, or an encoded null.
SpecMissing(row, c) == c > Len(row) \/ row[c] \in NaValues \ {""}

\* Whether a DataFrame cell holds the value of a source field.
HoldsValue(cell, source) ==
    IF IsNumText(source) /\ cell.t \in {"int", "float"}
    THEN cell.v = NumValue(source)
    ELSE cell = StrCell(source)

Untouched == touched = {} /\ outFiles = NoOutputs /\ log = <<>>

ReadCsvFull(file) == ParseRows(file.header, file.rows)

Front(q) == SubSeq(q, 1, Len(q) - 1)

\* The union of the frames' columns, in order of first appearance.
RECURSIVE UnionColumns(_)
UnionColumns(frames) ==
    IF frames = <<>> THEN <<>>
    ELSE LET cols == UnionColumns(Front(frames))
         IN cols \o SelectSeq(frames[Len(frames)].columns,
                              LAMBDA c : c \notin Range(cols))

\* The cell of row r of a frame under a column name: missing when the frame
\* lacks the column.
CellAt(frame, r, col) ==
    IF \E c \in 1..Len(frame.columns) : frame.columns[c] = col
    THEN frame.rows[r][CHOOSE c \in 1..Len(frame.columns) : frame.columns[c] = col]
    ELSE NaN

\* The rows of all frames, one after the other, over the given columns.
RECURSIVE StackRows(_, _)
StackRows(frames, cols) ==
    IF frames = <<>> THEN <<>>
    ELSE LET f == frames[Len(frames)]
         IN StackRows(Front(frames), cols)
              \o [r \in 1..Len(f.rows) |->
                    [c \in 1..Len(cols) |-> CellAt(f, r, cols[c])]]

\* A numeric column holding a float or a missing cell is float64 throughout.
Upcast(rows, r, c) ==
    IF /\ rows[r][c].t = "int"
       /\ \A q \in 1..Len(rows) : rows[q][c].t # "str"
       /\ \E q \in 1..Len(rows) : rows[q][c].t \in {"nan", "float"}
    THEN FloatCell(rows[r][c].v)
    ELSE rows[r][c]

\* pd.concat(dataframes, ignore_index=True)
Concat(frames) ==
    LET cols == UnionColumns(frames)
        rows == StackRows(frames, cols)
    IN [columns |-> cols,
        rows |-> [r \in 1..Len(rows) |->
                    [c \in 1..Len(cols) |-> Upcast(rows, r, c)]]]

\* Cell equality as duplicated() sees it: missing equals missing, numbers
\* are equal by value, strings by text.
CellEq(a, b) ==
    \/ a.t = "nan" /\ b.t = "nan"
    \/ a.t \in {"int", "float"} /\ b.t \in {"int", "float"} /\ a.v = b.v
    \/ a.t = "str" /\ b.t = "str" /\ a.s = b.s

RowEq(x, y) == \A c \in 1..Len(x) : CellEq(x[c], y[c])

\* Mutant: the last occurrence of a row is the one kept.
RECURSIVE KeepLast(_)
KeepLast(rows) ==
    IF rows = <<>> THEN <<>>
    ELSE IF \E j \in 2..Len(rows) : RowEq(rows[j], rows[1])
    THEN KeepLast(Tail(rows))
    ELSE <<rows[1]>> \o KeepLast(Tail(rows))

\* The rows kept by drop_duplicates(): a row is dropped when an earlier row
\* equals it on every column.
RECURSIVE KeepFirst(_)
KeepFirst(rows) ==
    IF rows = <<>> THEN <<>>
    ELSE IF \E j \in 1..(Len(rows) - 1) : RowEq(rows[j], rows[Len(rows)])
    THEN KeepFirst(Front(rows))
    ELSE Append(KeepFirst(Front(rows)), rows[Len(rows)])

\* combined_df.drop_duplicates()
DropDuplicates(frame) == [columns |-> frame.columns, rows |-> KeepFirst(frame.rows)]

\* csv_files = [f for f in os.listdir(folder_path) if f.endswith('.csv')]
LoadCsvFiles(names) == SelectSeq(names, LAMBDA f : EndsWith(f, DotCsv))

LoadFates == {"ok", "read_error"}

\* The files to combine: one or two columns, the second field of a row of a
\* two-column file possibly absent.
LoadContents ==
    {[header |-> <<"k">>, rows |-> rs] :
        rs \in SeqsUpTo({<<"x">>, <<"7">>}, MaxRows)}
    \cup {[header |-> Header, rows |-> rs] :
        rs \in SeqsUpTo({<<"x">>, <<"x", "7">>, <<"7", "7">>}, MaxRows)}

IdleClean ==
    /\ out = "absent"
    /\ rows_to_read = 0
    /\ placeholder = None
    /\ IdleLocals

\* A folder of files of any names, each loading or failing to load.
InitLoadBatch ==
    /\ folder \in FolderKinds
    /\ listing \in (IF folder = "dir" THEN Listings ELSE {<<>>})
    /\ fate \in [Range(listing) -> LoadFates]
    /\ content = [f \in Range(listing) |-> SampleFile]

\* Two well-named files of any content, both loading.
InitLoadRows ==
    /\ folder = "dir"
    /\ listing = <<NameLower, NameSecond>>
    /\ fate = [f \in Range(listing) |-> "ok"]
    /\ content \in [Range(listing) -> LoadContents]

InitLoad ==
    /\ pc = "load_check"
    /\ InitLoadBatch \/ InitLoadRows
    /\ IdleClean
    /\ IdleLoad
    /\ IdleStage

cleanVars == <<out, created, rows_to_read, placeholder, data, cleaned_data, err,
               outFiles, log, df, first, calls>>

\* if not os.path.exists(folder_path): raise FileNotFoundError
LoadCheckFolder ==
    /\ pc = "load_check"
    /\ IF folder = "absent"
       THEN pc' = "raised" /\ raised' = "FileNotFoundError"
       ELSE pc' = "load_list" /\ raised' = raised
    /\ UNCHANGED <<env, cleanVars, csv_files, i, touched, dataframes, combined_df>>

\* csv_files = [...]; if not csv_files: raise ValueError("No CSV files found ...")
LoadListCsvFiles ==
    /\ pc = "load_list"
    /\ IF folder # "dir"
       THEN /\ pc' = "raised" /\ csv_files' = csv_files
            /\ raised' = IF folder = "file" THEN "NotADirectoryError"
                         ELSE "FileNotFoundError"
       ELSE /\ csv_files' = LoadCsvFiles(listing)
            /\ IF LoadCsvFiles(listing) = <<>>
               THEN pc' = "raised" /\ raised' = "NoCsvFilesFound"
               ELSE pc' = "load_loop" /\ raised' = raised
    /\ i' = 1
    /\ UNCHANGED <<env, cleanVars, touched, dataframes, combined_df>>

\* Mutant: a file that fails to load ends the function.
LoadFileUncaught ==
    /\ pc = "load_loop"
    /\ i <= Len(csv_files)
    /\ touched' = touched \cup {csv_files[i]}
    /\ IF fate[csv_files[i]] = "read_error"
       THEN pc' = "raised" /\ raised' = "ParserError" /\ dataframes' = dataframes
       ELSE pc' = pc /\ raised' = raised
            /\ dataframes' = Append(dataframes, ReadCsvFull(content[csv_files[i]]))
    /\ i' = i + 1
    /\ UNCHANGED <<env, cleanVars, csv_files, combined_df>>

\* One turn of the loop: try: df = pd.read_csv(...); dataframes.append(df)
\* except Exception as e: print(...)
LoadFile ==
    /\ pc = "load_loop"
    /\ i <= Len(csv_files)
    /\ touched' = touched \cup {csv_files[i]}
    /\ dataframes' =
          IF fate[csv_files[i]] = "read_error" THEN dataframes
          ELSE Append(dataframes, ReadCsvFull(content[csv_files[i]]))
    /\ i' = i + 1
    /\ UNCHANGED <<env, cleanVars, pc, csv_files, raised, combined_df>>

\* if not dataframes: raise ValueError("No data was successfully loaded ...")
LoadCheckLoaded ==
    /\ pc = "load_loop"
    /\ i > Len(csv_files)
    /\ IF dataframes = <<>>
       THEN pc' = "raised" /\ raised' = "NoDataLoaded"
       ELSE pc' = "load_concat" /\ raised' = raised
    /\ UNCHANGED <<env, cleanVars, csv_files, i, touched, dataframes, combined_df>>

\* combined_df = pd.concat(dataframes, ignore_index=True)
LoadConcat ==
    /\ pc = "load_concat"
    /\ combined_df' = Concat(dataframes)
    /\ pc' = "load_dedup"
    /\ UNCHANGED <<env, cleanVars, csv_files, i, touched, dataframes, raised>>

\* combined_df = combined_df.drop_duplicates(); return combined_df
LoadDropDuplicates ==
    /\ pc = "load_dedup"
    /\ combined_df' = DropDuplicates(combined_df)
    /\ pc' = "load_done"
    /\ UNCHANGED <<env, cleanVars, csv_files, i, touched, dataframes, raised>>

NextLoad ==
    \/ LoadCheckFolder
    \/ LoadListCsvFiles
    \/ LoadFile
    \/ LoadCheckLoaded
    \/ LoadConcat
    \/ LoadDropDuplicates

SpecLoad == InitLoad /\ [][NextLoad]_vars

\* ------------------------------------------------------------ claims on load_cleaned_data
Stacked == Concat(dataframes).rows

\* The positions of Stacked holding the first occurrence of their row.
FirstOccurrences ==
    {j \in 1..Len(Stacked) : \A q \in 1..(j - 1) : ~RowEq(Stacked[q], Stacked[j])}

\* C3: the returned frame has no two rows equal on all columns; its rows are
\* the first occurrences of the concatenated rows, in their order.
C3_NoDuplicateRows ==
    pc = "load_done" =>
        LET rows == combined_df.rows
        IN /\ Len(rows) <= Len(Stacked)
           /\ \A a, b \in 1..Len(rows) : a # b => ~RowEq(rows[a], rows[b])
           /\ \A q \in 1..Len(Stacked) : \E a \in 1..Len(rows) : RowEq(rows[a], Stacked[q])
           /\ Len(rows) = Cardinality(FirstOccurrences)
           /\ \A a \in 1..Len(rows) :
                  \E j \in FirstOccurrences :
                      /\ rows[a] = Stacked[j]
                      /\ Cardinality({q \in FirstOccurrences : q < j}) = a - 1

\* Two files were combined, a row of the second repeating a row of the first
\* was dropped, and a later distinct row was kept.
C3_Witness ==
    /\ pc = "load_done"
    /\ Len(dataframes) = 2
    /\ Len(combined_df.rows) < Len(Stacked)
    /\ \E j \in FirstOccurrences, q \in 1..Len(Stacked) :
           /\ q \notin FirstOccurrences
           /\ q > Len(dataframes[1].rows)
           /\ q < j

AnyCaseCsv(f) == EndsWith(LowerName(f), DotCsv)

Loaded == SelectSeq(csv_files, LAMBDA f : fate[f] = "ok")

\* C6: with no CSV file in the folder the function raises the empty-folder
\* error; with files discovered and none loading it raises the no-data error;
\* in both cases nothing is returned.  Otherwise the files that fail are
\* skipped and the frame is built from exactly the files that loaded.
C6_LoadErrors ==
    /\ pc = "raised" => combined_df = NoFrame
    /\ folder = "dir" /\ (\A f \in Range(listing) : ~AnyCaseCsv(f)) =>
          /\ pc \in {"load_check", "load_list", "raised"}
          /\ pc = "raised" => raised = "NoCsvFilesFound"
    /\ raised = "NoCsvFilesFound" => csv_files = <<>> /\ dataframes = <<>>
    /\ csv_files # <<>> /\ (\A f \in Range(csv_files) : fate[f] = "read_error") =>
          /\ pc \in {"load_loop", "raised"}
          /\ pc = "raised" => raised = "NoDataLoaded"
    /\ raised = "NoDataLoaded" =>
          csv_files # <<>> /\ \A f \in Range(csv_files) : fate[f] = "read_error"
    /\ csv_files # <<>> /\ (\E f \in Range(csv_files) : fate[f] = "ok") =>
          /\ raised = "none"
          /\ pc \in {"load_concat", "load_dedup", "load_done"} =>
                /\ touched = Range(csv_files)
                /\ Len(dataframes) = Len(Loaded)
                /\ \A n \in 1..Len(Loaded) :
                       dataframes[n] = ReadCsvFull(content[Loaded[n]])
          /\ pc = "load_done" =>
                /\ Range(combined_df.columns)
                      = UNION {Range(content[f].header) : f \in Range(Loaded)}
                /\ \A n \in 1..Len(Loaded) :
                       \A r \in 1..Len(dataframes[n].rows) :
                           \E a \in 1..Len(combined_df.rows) :
                               \A c \in 1..Len(combined_df.columns) :
                                   CellEq(combined_df.rows[a][c],
                                          CellAt(dataframes[n], r,
                                                 combined_df.columns[c]))
                /\ \A a \in 1..Len(combined_df.rows) :
                       \E n \in 1..Len(Loaded) :
                           \E r \in 1..Len(dataframes[n].rows) :
                               \A c \in 1..Len(combined_df.columns) :
                                   CellEq(combined_df.rows[a][c],
                                          CellAt(dataframes[n], r,
                                                 combined_df.columns[c]))
    /\ pc # "raised" /\ pc # "load_done" => ENABLED NextLoad

\* Of two discovered files the first failed to load and the second was
\* returned.
C6_Witness ==
    /\ pc = "load_done"
    /\ Len(csv_files) = 2
    /\ fate[csv_files[1]] = "read_error"
    /\ Len(dataframes) = 1
    /\ combined_df.rows # <<>>

\* ------------------------------------------------------------ validate_numeric_columns
\* A float64 cell of a validated column, held as a count of halves so that
\* the median of an even number of integers is exact: Half(n) is n / 2.
Half(n) == [t |-> "half", v |-> n, s |-> ""]

\* numeric_validations, in dictionary order: column, min_val, max_val.
numeric_validations ==
    << <<"test_mileage", 0, 1000000>>,
       <<"cylinder_capacity", 0, 10000>>,
       <<"test_class_id", 1, 7>> >>

\* pd.to_numeric(cell, errors='coerce')
ToNumeric(cell) ==
    IF cell.t \in {"int", "float"} THEN Half(2 * cell.v)
    ELSE IF cell.t = "half" THEN cell
    ELSE IF cell.t = "str" /\ IsNumText(cell.s) THEN Half(2 * NumValue(cell.s))
    ELSE NaN

\* Mutant: the bounds themselves count as out of range.
OutOfRangeInclusive(cell, min_val, max_val) ==
    cell.t = "half" /\ (cell.v <= 2 * min_val \/ cell.v >= 2 * max_val)

\* mask = (df[column] < min_val) | (df[column] > max_val); NaN compares false.
OutOfRange(cell, min_val, max_val) ==
    cell.t = "half" /\ (cell.v < 2 * min_val \/ cell.v > 2 * max_val)

\* The k-th smallest of a non-empty sequence of integers.
Kth(vals, k) ==
    CHOOSE x \in Range(vals) :
        /\ Cardinality({n \in 1..Len(vals) : vals[n] < x}) < k
        /\ Cardinality({n \in 1..Len(vals) : vals[n] <= x}) >= k

\* Series.median(): missing cells are skipped; NaN when none is left.
Median(cells) ==
    LET vals == SelectSeq(cells, LAMBDA x : x.t = "half")
        n == Len(vals)
        sample == [m \in 1..n |-> vals[m].v]
    IN IF n = 0 THEN NaN
       ELSE IF n % 2 = 1 THEN Half(Kth(sample, (n + 1) \div 2))
       ELSE Half((Kth(sample, n \div 2) + Kth(sample, n \div 2 + 1)) \div 2)

\* The body of the loop for one column: coerce, mask, fill with the median.
ValidateColumn(cells, min_val, max_val) ==
    LET coerced == [r \in 1..Len(cells) |-> ToNumeric(cells[r])]
        masked == [r \in 1..Len(cells) |->
                     IF OutOfRange(coerced[r], min_val, max_val) THEN NaN
                     ELSE coerced[r]]
        median == Median(masked)
    IN [r \in 1..Len(cells) |-> IF masked[r] = NaN THEN median ELSE masked[r]]

Column(frame, c) == [r \in 1..Len(frame.rows) |-> frame.rows[r][c]]

HasColumn(frame, col) == \E c \in 1..Len(frame.columns) : frame.columns[c] = col

ColumnIndex(frame, col) == CHOOSE c \in 1..Len(frame.columns) : frame.columns[c] = col

\* One turn of the loop over numeric_validations.
ValidateOne(frame, rule) ==
    IF ~HasColumn(frame, rule[1]) THEN frame
    ELSE LET k == ColumnIndex(frame, rule[1])
             cells == ValidateColumn(Column(frame, k), rule[2], rule[3])
         IN [columns |-> frame.columns,
             rows |-> [r \in 1..Len(frame.rows) |->
                         [c \in 1..Len(frame.columns) |->
                            IF c = k THEN cells[r] ELSE frame.rows[r][c]]]]

RECURSIVE ValidateRules(_, _)
ValidateRules(frame, rules) ==
    IF rules = <<>> THEN frame
    ELSE ValidateOne(ValidateRules(frame, Front(rules)), rules[Len(rules)])

\* validate_numeric_columns(df)
ValidateNumericColumns(frame) == ValidateRules(frame, numeric_validations)

\* The cells a bounded column may hold on entry: below, at and above the
\* bounds, unparsable text, the text of a number within them, and missing.
NumericCells(rule) ==
    {IntCell(n) : n \in {rule[2] - 1, rule[2], rule[3], rule[3] + 1}}
        \cup {StrCell("abc"), StrCell("7"), NaN}

\* A frame of one bounded column beside an unbounded one.
OneColumnFrames ==
    UNION {{[columns |-> <<rule[1], "make">>,
             rows |-> [r \in 1..Len(cells) |-> <<cells[r], StrCell("x")>>]] :
               cells \in SeqsUpTo(NumericCells(rule), MaxCells)} :
           rule \in Range(numeric_validations)}

\* A one-row frame of the three bounded columns.
ThreeColumnFrames ==
    {[columns |-> <<"test_class_id", "test_mileage", "cylinder_capacity">>,
      rows |-> << <<a, b, c>> >>] :
        a \in NumericCells(numeric_validations[3]),
        b \in NumericCells(numeric_validations[1]),
        c \in NumericCells(numeric_validations[2])}

IdleFolder ==
    /\ folder = "dir"
    /\ listing = <<>>
    /\ content = <<>>
    /\ fate = <<>>
    /\ dataframes = <<>>

\* The frame load_cleaned_data returned is the one handed to the stage.
InitNumeric ==
    /\ pc = "validate"
    /\ combined_df \in OneColumnFrames \cup ThreeColumnFrames
    /\ df = combined_df
    /\ first = NoFrame
    /\ calls = 0
    /\ IdleFolder
    /\ IdleClean

frozen == <<folder, out, created, listing, content, fate, rows_to_read,
            placeholder, csv_files, i, data, cleaned_data, err, outFiles, log,
            touched, raised, dataframes, combined_df>>

\* df = validate_numeric_columns(df)
ValidateNumeric ==
    /\ pc = "validate"
    /\ df' = ValidateNumericColumns(df)
    /\ calls' = calls + 1
    /\ pc' = "validated"
    /\ UNCHANGED <<frozen, first>>

NextNumeric == ValidateNumeric

SpecNumeric == InitNumeric /\ [][NextNumeric]_vars

\* ------------------------------------------------------------ claims on validate_numeric_columns
\* Whether a cell on entry is parsable and within the bounds of the rule.
Valid(cell, rule) ==
    /\ ToNumeric(cell).t = "half"
    /\ ToNumeric(cell).v >= 2 * rule[2]
    /\ ToNumeric(cell).v <= 2 * rule[3]

InBounds(cell, rule) ==
    cell.t = "half" /\ cell.v >= 2 * rule[2] /\ cell.v <= 2 * rule[3]

\* Whether m is the median of the valid cells on entry, in halves: as many
\* valid cells lie at or below it as at or above it, and it is a valid value
\* or the mean of the two valid values around it.
IsMedianOfValid(m, cells, rule) ==
    LET valid == {r \in 1..Len(cells) : Valid(cells[r], rule)}
        val(r) == ToNumeric(cells[r]).v
        below == Cardinality({r \in valid : val(r) < m})
        above == Cardinality({r \in valid : val(r) > m})
    IN /\ valid # {}
       /\ 2 * below <= Cardinality(valid)
       /\ 2 * above <= Cardinality(valid)
       /\ \/ \E r \in valid : val(r) = m
          \/ /\ below = above
             /\ \E lo, hi \in valid :
                    /\ val(lo) < m /\ m < val(hi)
                    /\ 2 * m = val(lo) + val(hi)
                    /\ \A r \in valid : val(r) <= val(lo) \/ val(r) >= val(hi)

\* The claim about one bounded column: cells valid on entry keep their
\* value, every other cell holds the median of the valid ones.
ColumnValidated(rule) ==
    HasColumn(df, rule[1]) =>
        LET before == Column(combined_df, ColumnIndex(combined_df, rule[1]))
            after == Column(df, ColumnIndex(df, rule[1]))
        IN \A r \in 1..Len(after) :
               /\ \/ InBounds(after[r], rule)
                  \/ after[r].t = "half" /\ IsMedianOfValid(after[r].v, before, rule)
               /\ Valid(before[r], rule) => after[r] = ToNumeric(before[r])
               /\ ~Valid(before[r], rule) =>
                      after[r].t = "half" /\ IsMedianOfValid(after[r].v, before, rule)

\* C2 as stated: after validation, whatever the column held, every cell of a
\* bounded column is within its bounds or equals the median of the valid
\* cells; valid cells are unchanged, all others hold that median.
C2_AlwaysInRangeOrMedian ==
    pc = "validated" => \A rule \in Range(numeric_validations) : ColumnValidated(rule)

\* C2 amended: the same for every column holding at least one valid cell; a
\* column with no valid cell has no median and all its cells are left missing.
C2_InRangeOrMedianWhenDefined ==
    pc = "validated" =>
        \A rule \in Range(numeric_validations) :
            HasColumn(df, rule[1]) =>
                LET before == Column(combined_df, ColumnIndex(combined_df, rule[1]))
                    after == Column(df, ColumnIndex(df, rule[1]))
                IN IF \E r \in 1..Len(before) : Valid(before[r], rule)
                   THEN ColumnValidated(rule)
                   ELSE \A r \in 1..Len(after) : after[r] = NaN

\* A mileage column held a value at a bound, one above the range and one
\* unparsable: the first is kept, the others hold the median.
C2_Witness ==
    /\ pc = "validated"
    /\ HasColumn(df, "test_mileage")
    /\ LET before == Column(combined_df, ColumnIndex(combined_df, "test_mileage"))
           after == Column(df, ColumnIndex(df, "test_mileage"))
       IN /\ Len(before) = 3
          /\ before[1] = IntCell(1000000)
          /\ before[2] = IntCell(1000001)
          /\ before[3] = StrCell("abc")
          /\ after = <<Half(2000000), Half(2000000), Half(2000000)>>

\* ------------------------------------------------------------ standardize_categorical_columns
\* A string cell of a frame handed to the stage, as a sequence of characters.
Text(chars) == [t |-> "chars", c |-> chars]

categorical_columns ==
    <<"make", "model", "colour", "fuel_type", "test_type", "test_result">>

LowerLetters ==
    <<"a", "b", "c", "d", "e", "f", "g", "h", "i", "j", "k", "l", "m",
      "n", "o", "p", "q", "r", "s", "t", "u", "v", "w", "x", "y", "z">>

UpperLetters ==
    <<"A", "B", "C", "D", "E", "F", "G", "H", "I", "J", "K", "L", "M",
      "N", "O", "P", "Q", "R", "S", "T", "U", "V", "W", "X", "Y", "Z">>

Whitespace == {" ", "\t"}

\* astype(str): the string form of a cell.
AsStr(cell) ==
    IF cell.t = "chars" THEN cell.c
    ELSE IF cell.t = "nan" THEN <<"n", "a", "n">>
    ELSE IF cell.t = "none" THEN <<"N", "o", "n", "e">>
    ELSE IF cell.t = "int" THEN <<IntText(cell.v)>>
    ELSE <<IntText(cell.v), ".", "0">>

\* str.strip()
RECURSIVE Strip(_)
Strip(chars) ==
    IF chars = <<>> THEN <<>>
    ELSE IF chars[1] \in Whitespace THEN Strip(Tail(chars))
    ELSE IF chars[Len(chars)] \in Whitespace THEN Strip(Front(chars))
    ELSE chars

UpperChar(ch) ==
    IF \E n \in 1..Len(LowerLetters) : LowerLetters[n] = ch
    THEN UpperLetters[CHOOSE n \in 1..Len(LowerLetters) : LowerLetters[n] = ch]
    ELSE ch

\* str.upper()
Upper(chars) == [n \in 1..Len(chars) |-> UpperChar(chars[n])]

NullTexts ==
    {<<>>, <<"N", "A", "N">>, <<"N", "O", "N", "E">>, <<"N", "U", "L", "L">>}

NotAvailable == <<"N", "/", "A">>

\* replace(['', 'NAN', 'NONE', 'NULL'], 'N/A')
ReplaceNulls(chars) == IF chars \in NullTexts THEN NotAvailable ELSE chars

\* Mutant: the null texts are replaced before the cell is uppercased.
StandardizeCellReplaceFirst(cell) == Text(Upper(ReplaceNulls(Strip(AsStr(cell)))))

\* The three statements of the loop body, applied to one cell.
StandardizeCell(cell) == Text(ReplaceNulls(Upper(Strip(AsStr(cell)))))

\* standardize_categorical_columns(df)
StandardizeCategoricalColumns(frame) ==
    [columns |-> frame.columns,
     rows |-> [r \in 1..Len(frame.rows) |->
                 [c \in 1..Len(frame.columns) |->
                    IF frame.columns[c] \in Range(categorical_columns)
                    THEN StandardizeCell(frame.rows[r][c])
                    ELSE frame.rows[r][c]]]]

\* The cells on entry: every text of up to MaxLen characters over a small
\* alphabet, texts that spell a null in some case, and cells that are not
\* strings.
CategoricalCells ==
    {Text(x) : x \in SeqsUpTo({" ", "a"}, MaxLen)}
        \cup {Text(<<" ", "n", "u", "l", "l", " ">>),
              Text(<<"N", "U", "L", "L">>),
              Text(<<"n", "a", "n">>),
              Text(<<"N", "o", "n", "e">>),
              Text(<<"n", "/", "a">>),
              Text(<<"N", "/", "A">>),
              Text(<<"\t", "F", "o", "r", "d", " ">>),
              Text(<<"n", "u", "l", "l", "s">>),
              Text(<<"a", " ", "b">>)}
        \cup {NaN, None, IntCell(7), FloatCell(7)}

\* One row of a categorical and an uncategorical column, or two rows of one
\* categorical column.
CategoricalFrames ==
    {[columns |-> <<"make", "vehicle_id">>, rows |-> << <<a, b>> >>] :
        a \in CategoricalCells, b \in CategoricalCells}
    \cup {[columns |-> <<"test_result">>, rows |-> << <<a>>, <<b>> >>] :
        a \in CategoricalCells, b \in CategoricalCells}

InitCategorical ==
    /\ pc = "standardize"
    /\ combined_df \in CategoricalFrames
    /\ df = combined_df
    /\ first = NoFrame
    /\ calls = 0
    /\ IdleFolder
    /\ IdleClean

\* df = standardize_categorical_columns(df), applied once and once more.
Standardize ==
    /\ pc = "standardize"
    /\ calls < 2
    /\ df' = StandardizeCategoricalColumns(df)
    /\ first' = IF calls = 0 THEN df' ELSE first
    /\ calls' = calls + 1
    /\ UNCHANGED <<frozen, pc>>

NextCategorical == Standardize

SpecCategorical == InitCategorical /\ [][NextCategorical]_vars

\* ------------------------------------------------------------ claims on standardize_categorical_columns
\* What one application leaves in a categorical cell: a string with no
\* whitespace at either end and no lower-case letter, never one of the null
\* texts.
Standardized(cell) ==
    /\ cell.t = "chars"
    /\ cell.c # <<>> => cell.c[1] \notin Whitespace /\ cell.c[Len(cell.c)] \notin Whitespace
    /\ \A n \in 1..Len(cell.c) : cell.c[n] \notin Range(LowerLetters)
    /\ cell.c \notin NullTexts

\* C9: applying the standardization twice gives what applying it once gives;
\* one application leaves every categorical cell stripped, uppercased and
\* free of null texts, turns " null " into "N/A" and leaves other columns as
\* they were.
C9_Idempotent ==
    /\ calls = 2 => df = first
    /\ calls >= 1 =>
          \A r \in 1..Len(first.rows) : \A c \in 1..Len(first.columns) :
              IF first.columns[c] \in Range(categorical_columns)
              THEN /\ Standardized(first.rows[r][c])
                   /\ combined_df.rows[r][c] = Text(<<" ", "n", "u", "l", "l", " ">>)
                         => first.rows[r][c] = Text(NotAvailable)
              ELSE first.rows[r][c] = combined_df.rows[r][c]

\* The stage ran twice on a frame holding " null " and a missing cell, and
\* both are "N/A".
C9_Witness ==
    /\ calls = 2
    /\ combined_df.columns = <<"test_result">>
    /\ combined_df.rows[1][1] = Text(<<" ", "n", "u", "l", "l", " ">>)
    /\ combined_df.rows[2][1] = NaN
    /\ df.rows[1][1] = Text(NotAvailable)
    /\ df.rows[2][1] = Text(NotAvailable)

====
